---- MODULE Spec2Model ----
(***************************************************************************)
(* Verification model of the dependency resolvers of the repository:       *)
(*   tools/api_exporter/generate_file_sheets.py                            *)
(*       resolve_ts_import, build_indexes, compute_dependencies_for_file,  *)
(*       compute_method_calls_for_file                                     *)
(*   tools/generate_imports_from_source.py                                 *)
(*       build_di_registration_map, build_namespace_index,                 *)
(*       match_using_to_file_ids, process_record_imports                   *)
(*                                                                         *)
(* Representation.                                                         *)
(*   file name   : sequence of dotted parts, <<"b", ".ts">> is b.ts; the   *)
(*                 suffix (Path.suffix) is the last part of a name of more *)
(*                 than one part                                           *)
(*   path        : [dir |-> sequence of directory names, name |-> name]    *)
(*   import spec : sequence of "/"-separated segments, each a name; "."    *)
(*                 and ".." are the names Cur and Up                       *)
(*   namespace   : sequence of characters, <<"P", ".", "Q">> is P.Q        *)
(*   python dict : function; d.get(k, default) is Get(d, k, default)       *)
(***************************************************************************)
EXTENDS Integers, Sequences, FiniteSets, TLC

VARIABLES
    \* ---- generate_file_sheets.py ----
    fs,           \* the files that exist under the project root
    disk,         \* what is stored for each file, where the model reads it
    idxs,         \* the dictionary build_indexes returns
    relpath,      \* the root file of the running compute_* call
    max_levels,   \* N
    deps_levels,  \* compute_dependencies_for_file: deps_levels[0..N]
    visited,      \* compute_dependencies_for_file: visited
    lvl,          \* loop variable of the expansion loop
    todo,         \* members of list(deps_levels[lvl]) not yet iterated
    pc,           \* position in compute_dependencies_for_file
    run,          \* how many times the call was made on this index
    prev_levels,  \* the levels the previous call returned
    c_pc,         \* position in compute_method_calls_for_file
    c_left,       \* methods of the file the outer loop has not reached yet
    c_mname,      \* mname of the outer loop
    c_levels,     \* levels[0..N] of the current method
    c_lvl,        \* loop variable of the expansion loop
    c_todo,       \* members of list(levels[lvl]) not yet iterated
    c_result,     \* result: method name -> levels
    \* ---- generate_imports_from_source.py ----
    records,      \* main: the list of records, after the indexes are built
    class_idx,    \* class name -> list of file ids
    method_idx,   \* method name -> list of file ids
    ns_to_ids,    \* declared namespace -> list of file ids
    di_regs,      \* the DI registration call sites, in scan order
    di_map,       \* interface short name -> list of implementation names
    globals,      \* the module's global names and their values
    p_idx,        \* main: index of the record being resolved
    p_pc,         \* position in process_record_imports
    matches,      \* process_record_imports: matches
    seen,         \* process_record_imports: seen
    p_left,       \* members of the set being iterated not yet reached
    p_i,          \* index into the list being iterated
    using_candidates,  \* process_record_imports: using_candidates
    using_calls   \* what match_using_to_file_ids returned, per using

inputVars == <<fs, disk, idxs, relpath, max_levels>>

depsVars == <<deps_levels, visited, lvl, todo, pc, run, prev_levels>>

callsVars == <<c_pc, c_left, c_mname, c_levels, c_lvl, c_todo, c_result>>

indexVars == <<records, class_idx, method_idx, ns_to_ids, di_regs, di_map, globals>>

procVars == <<p_idx, p_pc, matches, seen, p_left, p_i, using_candidates, using_calls>>

importsVars == <<indexVars, procVars>>

vars == <<inputVars, depsVars, callsVars, importsVars>>

----------------------------------------------------------------------------
(* Bounds of the model *)

MaxLevels == 3
MaxRuns == 2

----------------------------------------------------------------------------
(* Generic helpers *)

Range(s) == {s[i] : i \in DOMAIN s}

Get(d, k, default) == IF k \in DOMAIN d THEN d[k] ELSE default

Front(s) == SubSeq(s, 1, Len(s) - 1)

Last(s) == s[Len(s)]

\* the empty dict
NoMethods == <<>>

IsPrefix(p, s) == Len(p) <= Len(s) /\ SubSeq(s, 1, Len(p)) = p

----------------------------------------------------------------------------
(* generate_file_sheets.py: paths and import resolution *)

TS_EXTS == <<".ts", ".tsx", ".js", ".jsx">>
CS_EXTS == <<".cs">>

Cur == <<".">>
Up == <<"..">>

Suffix(p) == IF Len(p.name) > 1 THEN Last(p.name) ELSE ""

IsTs(p) == Suffix(p) \in Range(TS_EXTS)
IsCs(p) == Suffix(p) \in Range(CS_EXTS)

\* (importer.parent / spec).resolve(): the segments of the resulting path
RECURSIVE JoinResolve(_, _)
JoinResolve(segs, spec) ==
    IF spec = <<>> THEN segs
    ELSE LET s == Head(spec) IN
         IF s = Cur THEN JoinResolve(segs, Tail(spec))
         ELSE IF s = Up
              THEN JoinResolve(IF segs = <<>> \/ Last(segs) = Up
                               THEN Append(segs, Up) ELSE Front(segs),
                               Tail(spec))
         ELSE JoinResolve(Append(segs, s), Tail(spec))

DirSegs(p) == [i \in 1..Len(p.dir) |-> <<p.dir[i]>>]

SegsToPath(segs) ==
    [dir |-> [i \in 1..(Len(segs) - 1) |-> segs[i][1]], name |-> Last(segs)]

\* a spec starts with "." when its first segment is "." or ".."
StartsWithDot(spec) == spec # <<>> /\ Head(spec) \in {Cur, Up}

resolve_ts_import_first_ext(files, importer, spec) ==
    IF ~StartsWithDot(spec) THEN <<>>
    ELSE LET base == JoinResolve(DirSegs(importer), spec)
             withExt == IF base = <<>> THEN <<>>
                        ELSE <<[dir |-> SegsToPath(base).dir,
                                name |-> Append(Last(base), TS_EXTS[1])]>>
         IN SelectSeq(withExt, LAMBDA p : p \in files)

resolve_ts_import(files, importer, spec) ==
    IF ~StartsWithDot(spec) THEN <<>>
    ELSE LET base == JoinResolve(DirSegs(importer), spec)
             withExt == IF base = <<>> THEN <<>>
                        ELSE [i \in 1..Len(TS_EXTS) |->
                                [dir |-> SegsToPath(base).dir,
                                 name |-> Append(Last(base), TS_EXTS[i])]]
             index == [i \in 1..Len(TS_EXTS) |->
                         [dir |-> [j \in 1..Len(base) |-> base[j][1]],
                          name |-> <<"index", TS_EXTS[i]>>]]
             literal == IF base # <<>> /\ SegsToPath(base) \in files
                        THEN <<SegsToPath(base)>> ELSE <<>>
             candidates == literal \o withExt \o index
         IN SelectSeq(candidates, LAMBDA p : p \in files)

----------------------------------------------------------------------------
(* generate_file_sheets.py: build_indexes *)

IGNORED_DIRS == {"node_modules", "obj", "bin", ".git", "packages", "dist",
                 "build", "target"}

\* list_source_files: source files outside the ignored directories
list_source_files(files) ==
    {p \in files : (IsTs(p) \/ IsCs(p)) /\ Range(p.dir) \cap IGNORED_DIRS = {}}

\* src[f] is what the extract_* functions find in the text of file f:
\*   TS: exports, imports (list of specs), words (IDENTIFIER_RE tokens)
\*   C#: types, namespaces, usings (list), words, methods (name -> body)
build_indexes(files, src) ==
    LET tsFiles == {f \in files : IsTs(f)}
        csFiles == {f \in files : ~IsTs(f) /\ IsCs(f)}
        ts_exports == [f \in tsFiles |-> src[f].exports]
        cs_types == [f \in csFiles |-> src[f].types]
        cs_namespaces == [f \in csFiles |-> src[f].namespaces]
        cs_methods == [f \in csFiles |-> src[f].methods]
        symbols == UNION {ts_exports[f] : f \in tsFiles}
                   \cup UNION {cs_types[f] : f \in csFiles}
        mnames == UNION {DOMAIN cs_methods[f] : f \in csFiles}
        nss == UNION {cs_namespaces[f] : f \in csFiles}
    IN [ts_exports |-> ts_exports,
        ts_imports |-> [f \in tsFiles |-> src[f].imports],
        cs_types |-> cs_types,
        cs_namespaces |-> cs_namespaces,
        cs_usings |-> [f \in csFiles |-> src[f].usings],
        cs_identifiers |-> [f \in csFiles |-> src[f].words],
        cs_methods |-> cs_methods,
        symbol_decl_map |->
            [s \in symbols |->
                {f \in tsFiles : s \in ts_exports[f]}
                \cup {f \in csFiles : s \in cs_types[f]}],
        namespace_decl_map |->
            [ns \in nss |-> {f \in csFiles : ns \in cs_namespaces[f]}],
        method_decl_map |->
            [m \in mnames |-> {f \in csFiles : m \in DOMAIN cs_methods[f]}],
        file_texts |-> [f \in files |-> src[f].words]]

----------------------------------------------------------------------------
(* generate_file_sheets.py: compute_dependencies_for_file *)

\* the files the import specs of TS file f resolve to (lines 228-236, 268-276)
ImportTargets(files, ix, f) ==
    LET imports == Get(ix.ts_imports, f, <<>>) IN
    UNION {Range(resolve_ts_import(files, f, imports[i])) : i \in DOMAIN imports}

\* the files declaring a namespace f has a using for (lines 239-243, 278-282)
UsingTargets(ix, f) ==
    LET usings == Get(ix.cs_usings, f, <<>>) IN
    {g \in UNION {Get(ix.namespace_decl_map, usings[i], {}) : i \in DOMAIN usings}
        : g # f}

\* the files declaring a symbol among the given identifiers
\* (lines 245-248, 253-256, 284-287)
IdentTargets(ix, f, identifiers) ==
    {g \in UNION {Get(ix.symbol_decl_map, ident, {}) : ident \in identifiers}
        : g # f}

\* deps_levels[1] of root f (lines 227-256)
Level1Targets(files, ix, f) ==
    (IF IsTs(f) THEN ImportTargets(files, ix, f) ELSE {})
    \cup (IF IsCs(f)
          THEN UsingTargets(ix, f)
               \cup IdentTargets(ix, f, Get(ix.cs_identifiers, f, {}))
          ELSE {})
    \cup (IF IsTs(f)
          THEN IdentTargets(ix, f, Get(ix.file_texts, f, {}))
          ELSE {})

\* "direct" of a file f reached during expansion (lines 266-287)
DirectTargets(files, ix, f) ==
    (IF IsTs(f) THEN ImportTargets(files, ix, f) ELSE {})
    \cup (IF IsCs(f)
          THEN UsingTargets(ix, f)
               \cup IdentTargets(ix, f, Get(ix.cs_identifiers, f, {}))
          ELSE {})

\* body of "for f in list(deps_levels[lvl])" with the dedupe test keyed on
\* the visited set instead of the earlier levels
ExpandBody_visited_dedupe(files, ix, levels, vis, l, f) ==
    IF f \in vis THEN [levels |-> levels, visited |-> vis]
    ELSE IF f \notin files THEN [levels |-> levels, visited |-> vis \cup {f}]
    ELSE LET direct == DirectTargets(files, ix, f)
             new == {d \in direct : d \notin vis}
         IN [levels |-> [levels EXCEPT ![l + 1] = @ \cup new],
             visited |-> vis \cup {f}]

\* body of "for f in list(deps_levels[lvl])" without the dedupe test
ExpandBody_no_dedupe(files, ix, levels, vis, l, f) ==
    IF f \in vis THEN [levels |-> levels, visited |-> vis]
    ELSE IF f \notin files THEN [levels |-> levels, visited |-> vis \cup {f}]
    ELSE [levels |-> [levels EXCEPT ![l + 1] = @ \cup DirectTargets(files, ix, f)],
          visited |-> vis \cup {f}]

\* body of "for f in list(deps_levels[lvl])" (lines 260-290)
ExpandBody(files, ix, levels, vis, l, f) ==
    IF f \in vis THEN [levels |-> levels, visited |-> vis]
    ELSE IF f \notin files THEN [levels |-> levels, visited |-> vis \cup {f}]
    ELSE LET direct == DirectTargets(files, ix, f)
             new == {d \in direct :
                        d \notin levels[1] /\ \A x \in 1..l : d \notin levels[x]}
         IN [levels |-> [levels EXCEPT ![l + 1] = @ \cup new],
             visited |-> vis \cup {f}]

\* lines 224-256: the level sets are created and level 1 is filled
DepsLevel1 ==
    /\ pc = "start"
    /\ deps_levels' = [i \in 0..max_levels |->
                          IF i = 1 THEN Level1Targets(fs, idxs, relpath) ELSE {}]
    /\ visited' = {}
    /\ lvl' = 1
    /\ todo' = IF 1 < max_levels THEN Level1Targets(fs, idxs, relpath) ELSE {}
    /\ pc' = IF 1 < max_levels THEN "expand" ELSE "done"
    /\ UNCHANGED <<callsVars, importsVars>>
    /\ UNCHANGED <<inputVars, run, prev_levels>>

\* one iteration of the inner loop; a set is iterated in no particular order
DepsExpandFile ==
    /\ pc = "expand"
    /\ \E f \in todo :
          LET r == ExpandBody(fs, idxs, deps_levels, visited, lvl, f) IN
          /\ deps_levels' = r.levels
          /\ visited' = r.visited
          /\ todo' = todo \ {f}
    /\ UNCHANGED <<callsVars, importsVars>>
    /\ UNCHANGED <<inputVars, lvl, pc, run, prev_levels>>

\* the inner loop is exhausted: next lvl of range(1, max_levels), or return
DepsNextLevel ==
    /\ pc = "expand"
    /\ todo = {}
    /\ lvl' = lvl + 1
    /\ IF lvl + 1 < max_levels
       THEN /\ todo' = deps_levels[lvl + 1]
            /\ pc' = "expand"
       ELSE /\ todo' = {}
            /\ pc' = "done"
    /\ UNCHANGED <<callsVars, importsVars>>
    /\ UNCHANGED <<inputVars, deps_levels, visited, run,
                   prev_levels>>

\* the same call is made again on the unchanged index
DepsRerun ==
    /\ pc = "done"
    /\ run < MaxRuns
    /\ prev_levels' = deps_levels
    /\ run' = run + 1
    /\ pc' = "start"
    /\ UNCHANGED <<callsVars, importsVars>>
    /\ UNCHANGED <<inputVars, deps_levels, visited, lvl, todo>>

----------------------------------------------------------------------------
(* generate_file_sheets.py: compute_method_calls_for_file                  *)
(* A method body is a sequence of tokens: [kind |-> "call", full |-> the   *)
(* dotted expression INVOKE_RE captures before "("] or [kind |-> "text"];  *)
(* the empty sequence is the empty body ''.  An entry 'file::method' is    *)
(* the pair <<file, method>>.                                              *)

\* the names a body invokes: the last dotted segment of each INVOKE_RE
\* match, empty ones dropped (lines 312-320, 344-350)
InvokedNames(body) ==
    {Last(body[i].full) : i \in {j \in DOMAIN body : body[j].kind = "call"}}
    \ {""}

\* every C# file is paired with an invoked name some file declares
CallEntries_every_file(ix, invoked) ==
    {<<f, name>> : f \in DOMAIN ix.cs_methods,
                   name \in invoked \cap DOMAIN ix.method_decl_map}

\* the (file, method) entries the invoked names resolve to through
\* method_decl_map (lines 323-328, 351-353)
CallEntries(ix, invoked) ==
    UNION {{<<f, name>> : f \in Get(ix.method_decl_map, name, {})} : name \in invoked}

\* levels[1] of a method of file f with the given body (lines 310-328):
\* both branches of "if f != relpath" add the entry
CallLevel1(ix, f, body) ==
    {e \in CallEntries(ix, InvokedNames(body)) : e[1] # f}
    \cup {e \in CallEntries(ix, InvokedNames(body)) : e[1] = f}

\* body of "for item in list(levels[lvl])" without the test against the
\* earlier levels
CallExpandBody_no_dedupe(ix, levels, l, item) ==
    LET other_methods == Get(ix.cs_methods, item[1], NoMethods)
        body2 == Get(other_methods, item[2], <<>>)
    IN IF body2 = <<>> THEN levels
       ELSE [levels EXCEPT ![l + 1] = @ \cup CallEntries(ix, InvokedNames(body2))]

\* an entry without a known body abandons the level being built
CallExpandBody_unknown_aborts(ix, levels, l, item) ==
    LET other_methods == Get(ix.cs_methods, item[1], NoMethods)
        body2 == Get(other_methods, item[2], <<>>)
    IN IF body2 = <<>> THEN [levels EXCEPT ![l + 1] = {}]
       ELSE LET new == {key \in CallEntries(ix, InvokedNames(body2)) :
                           \A x \in 1..l : key \notin levels[x]}
            IN [levels EXCEPT ![l + 1] = @ \cup new]

\* body of "for item in list(levels[lvl])" with the test made against the
\* level being expanded only
CallExpandBody_dedupe_last_level(ix, levels, l, item) ==
    LET other_methods == Get(ix.cs_methods, item[1], NoMethods)
        body2 == Get(other_methods, item[2], <<>>)
    IN IF body2 = <<>> THEN levels
       ELSE LET new == {key \in CallEntries(ix, InvokedNames(body2)) :
                           key \notin levels[l]}
            IN [levels EXCEPT ![l + 1] = @ \cup new]

\* body of "for item in list(levels[lvl])" (lines 333-356)
CallExpandBody(ix, levels, l, item) ==
    LET other_methods == Get(ix.cs_methods, item[1], NoMethods)
        body2 == Get(other_methods, item[2], <<>>)
    IN IF body2 = <<>> THEN levels
       ELSE LET new == {key \in CallEntries(ix, InvokedNames(body2)) :
                           \A x \in 1..l : key \notin levels[x]}
            IN [levels EXCEPT ![l + 1] = @ \cup new]

\* lines 300-306: result = {}, and the early return of a file without methods
CallsStart ==
    /\ c_pc = "start"
    /\ c_result' = <<>>
    /\ LET methods == Get(idxs.cs_methods, relpath, NoMethods) IN
       IF DOMAIN methods = {}
       THEN c_pc' = "return" /\ c_left' = {}
       ELSE c_pc' = "method" /\ c_left' = DOMAIN methods
    /\ UNCHANGED <<c_mname, c_levels, c_lvl, c_todo>>
    /\ UNCHANGED <<inputVars, depsVars, importsVars>>

\* lines 309-328: the next method of the file, and its level 1
CallsMethodLevel1 ==
    /\ c_pc = "method"
    /\ \E m \in c_left :
          LET l1 == CallLevel1(idxs, relpath, idxs.cs_methods[relpath][m]) IN
          /\ c_mname' = m
          /\ c_levels' = [i \in 0..max_levels |-> IF i = 1 THEN l1 ELSE {}]
          /\ c_todo' = IF 1 < max_levels THEN l1 ELSE {}
    /\ c_lvl' = 1
    /\ c_pc' = "expand"
    /\ UNCHANGED <<c_left, c_result>>
    /\ UNCHANGED <<inputVars, depsVars, importsVars>>

\* one iteration of "for item in list(levels[lvl])"
CallsExpandItem ==
    /\ c_pc = "expand"
    /\ \E item \in c_todo :
          /\ c_levels' = CallExpandBody(idxs, c_levels, c_lvl, item)
          /\ c_todo' = c_todo \ {item}
    /\ UNCHANGED <<c_pc, c_left, c_mname, c_lvl, c_result>>
    /\ UNCHANGED <<inputVars, depsVars, importsVars>>

\* the inner loop is exhausted: next lvl of range(1, max_levels), or
\* result[mname] = levels (line 358)
CallsNextLevel ==
    /\ c_pc = "expand"
    /\ c_todo = {}
    /\ IF c_lvl + 1 < max_levels
       THEN /\ c_lvl' = c_lvl + 1
            /\ c_todo' = c_levels[c_lvl + 1]
            /\ UNCHANGED <<c_pc, c_left, c_result>>
       ELSE /\ c_result' = [m \in DOMAIN c_result \cup {c_mname} |->
                               IF m = c_mname THEN c_levels ELSE c_result[m]]
            /\ c_left' = c_left \ {c_mname}
            /\ c_pc' = IF c_left \ {c_mname} = {} THEN "return" ELSE "method"
            /\ UNCHANGED <<c_lvl, c_todo>>
    /\ UNCHANGED <<c_mname, c_levels>>
    /\ UNCHANGED <<inputVars, depsVars, importsVars>>

----------------------------------------------------------------------------
(* generate_imports_from_source.py: strings                                *)
(* A string is the sequence of its characters.                             *)

UpperAlpha == <<"A", "B", "C", "D", "E", "F", "G", "H", "I", "J", "K", "L", "M",
                "N", "O", "P", "Q", "R", "S", "T", "U", "V", "W", "X", "Y", "Z">>
LowerAlpha == <<"a", "b", "c", "d", "e", "f", "g", "h", "i", "j", "k", "l", "m",
                "n", "o", "p", "q", "r", "s", "t", "u", "v", "w", "x", "y", "z">>

\* str.isupper() of one character
IsUpperChar(c) == \E i \in DOMAIN UpperAlpha : UpperAlpha[i] = c

LowerChar(c) ==
    IF IsUpperChar(c)
    THEN LowerAlpha[CHOOSE i \in DOMAIN UpperAlpha : UpperAlpha[i] = c]
    ELSE c

\* str.lower()
Lower(s) == [i \in DOMAIN s |-> LowerChar(s[i])]

\* "sub in s"
Contains(sub, s) ==
    \E i \in 1..(Len(s) - Len(sub) + 1) : SubSeq(s, i, i + Len(sub) - 1) = sub

\* s.startswith(p)
StartsWith(s, p) == IsPrefix(p, s)

\* s.split(c)
RECURSIVE SplitOn(_, _)
SplitOn(s, c) ==
    IF \A i \in DOMAIN s : s[i] # c THEN <<s>>
    ELSE LET k == CHOOSE i \in DOMAIN s : s[i] = c /\ \A j \in 1..(i - 1) : s[j] # c
         IN <<SubSeq(s, 1, k - 1)>> \o SplitOn(SubSeq(s, k + 1, Len(s)), c)

\* s.strip()
RECURSIVE Strip(_)
Strip(s) ==
    IF s = <<>> THEN s
    ELSE IF Head(s) = " " THEN Strip(Tail(s))
    ELSE IF Last(s) = " " THEN Strip(Front(s))
    ELSE s

Dot == <<".">>
DotCs == <<".", "c", "s">>
Arrow == <<"-", ">">>

USING_IGNORE_KEYWORDS ==
    << <<"d","e","p","e","n","d","e","n","c","y","i","n","j","e","c","t","i","o","n">>,
       <<"d","a","t","a","b","a","s","e","c","o","n","t","e","x","t">>,
       <<"s","t","a","r","t","u","p">>,
       <<"p","r","o","g","r","a","m">> >>

----------------------------------------------------------------------------
(* generate_imports_from_source.py: the indexes main builds *)

\* build_decl_indexes_parallel: the worker results are merged in the order
\* in which they complete; recs[i].id = i
build_decl_indexes_parallel(recs, order) ==
    LET names(field) == UNION {Range(recs[i][field]) : i \in DOMAIN recs}
        idx(field) ==
            [c \in names(field) |->
                SelectSeq(order, LAMBDA fid : c \in Range(recs[fid][field]))]
    IN [class_idx |-> idx("declared_classes"), method_idx |-> idx("declared_methods")]

\* build_namespace_index
build_namespace_index(recs) ==
    [ns \in UNION {Range(recs[i].declared_namespaces) : i \in DOMAIN recs} |->
        SelectSeq([i \in DOMAIN recs |-> recs[i].id],
                  LAMBDA fid : ns \in Range(recs[fid].declared_namespaces))]

\* build_di_registration_map: regs are the (interface, implementation)
\* pairs the two registration patterns capture, in scan order
RECURSIVE DiFold(_, _)
DiFold(dm, regs) ==
    IF regs = <<>> THEN dm
    ELSE LET iface == Last(SplitOn(Head(regs).iface, "."))
             impl == Last(SplitOn(Head(regs).impl, "."))
             old == Get(dm, iface, <<>>)
             new == IF impl \in Range(old) THEN old ELSE Append(old, impl)
         IN DiFold([k \in DOMAIN dm \cup {iface} |-> IF k = iface THEN new ELSE dm[k]],
                   Tail(regs))

\* the registered names are kept qualified
build_di_registration_map_qualified(regs) ==
    LET RECURSIVE F(_, _)
        F(dm, rs) ==
            IF rs = <<>> THEN dm
            ELSE LET iface == Head(rs).iface
                     impl == Head(rs).impl
                     old == Get(dm, iface, <<>>)
                     new == IF impl \in Range(old) THEN old ELSE Append(old, impl)
                 IN F([k \in DOMAIN dm \cup {iface} |-> IF k = iface THEN new ELSE dm[k]],
                      Tail(rs))
    IN F(<<>>, regs)

build_di_registration_map(regs) == DiFold(<<>>, regs)

----------------------------------------------------------------------------
(* generate_imports_from_source.py: match_using_to_file_ids *)

\* the dot after the prefix is not required
match_using_to_file_ids_no_dot(g, using, nsidx) ==
    UNION {Range(nsidx[decl_ns]) :
             decl_ns \in {d \in DOMAIN nsidx :
                IF g.GLOBAL_STRICT_USINGS
                THEN d = using \/ StartsWith(d, using)
                ELSE d = using \/ StartsWith(d, using) \/ StartsWith(using, d)}}

match_using_to_file_ids(g, using, nsidx) ==
    UNION {Range(nsidx[decl_ns]) :
             decl_ns \in {d \in DOMAIN nsidx :
                IF g.GLOBAL_STRICT_USINGS
                THEN d = using \/ StartsWith(d, using \o Dot)
                ELSE d = using \/ StartsWith(d, using \o Dot)
                     \/ StartsWith(using, d \o Dot)}}

----------------------------------------------------------------------------
(* generate_imports_from_source.py: process_record_imports                 *)
(* g is the module's global namespace, a the args_tuple (rec, class_idx,   *)
(* method_idx, di_map, ns_to_ids), st the pair (matches, seen).            *)

\* next((r for r in globals().get('records', []) if r['id'] == fid), None):
\* the set holding the target, empty for None
GlobalTarget(g, fid) ==
    LET records_list == Get(g, "records", <<>>)
        hits == {i \in DOMAIN records_list : records_list[i].id = fid}
    IN IF hits = {} THEN {}
       ELSE {records_list[CHOOSE i \in hits : \A j \in hits : i <= j]}

\* lines 233-248
should_skip_target(g, fid) ==
    \E target \in GlobalTarget(g, fid) :
        \E k \in DOMAIN g.EXCLUDE_FILENAME_PATTERNS :
            LET pat == g.EXCLUDE_FILENAME_PATTERNS[k] IN
            pat # <<>> /\ Contains(pat, Lower(target.name))

\* "for fid in <list>: if fid not in seen and fid != rec['id'] and not
\* should_skip_target(fid): matches.append(...); seen.add(fid)"
RECURSIVE AddTargets(_, _, _, _, _, _)
AddTargets(g, a, st, fids, by, sym) ==
    IF fids = <<>> THEN st
    ELSE LET fid == Head(fids)
             st1 == IF fid \notin st.seen /\ fid # a.rec.id /\ ~should_skip_target(g, fid)
                    THEN [matches |-> Append(st.matches,
                                             [fid |-> fid, by |-> by, sym |-> sym]),
                          seen |-> st.seen \cup {fid}]
                    ELSE st
         IN AddTargets(g, a, st1, Tail(fids), by, sym)

\* lines 258-264, for the implementations registered for t
RECURSIVE DiExpand(_, _, _, _, _)
DiExpand(g, a, st, t, impls) ==
    IF impls = <<>> THEN st
    ELSE LET impl == Head(impls)
             st1 == IF impl \in DOMAIN a.class_idx
                    THEN AddTargets(g, a, st, a.class_idx[impl], "di",
                                    t \o Arrow \o impl)
                    ELSE st
         IN DiExpand(g, a, st1, t, Tail(impls))

\* only the first file declaring the type is taken
ParamBody_first_file_only(g, a, st, t) ==
    LET st1 == IF t \in DOMAIN a.class_idx
               THEN AddTargets(g, a, st, SubSeq(a.class_idx[t], 1, 1), "param", t)
               ELSE st
    IN IF t \in DOMAIN a.di_map THEN DiExpand(g, a, st1, t, a.di_map[t]) ELSE st1

\* body of "for t in param_field_types" (lines 252-264)
ParamBody(g, a, st, t) ==
    LET st1 == IF t \in DOMAIN a.class_idx
               THEN AddTargets(g, a, st, a.class_idx[t], "param", t)
               ELSE st
    IN IF t \in DOMAIN a.di_map THEN DiExpand(g, a, st1, t, a.di_map[t]) ELSE st1

\* only the first file the class index lists for the type is taken
NewBody_first_file_only(g, a, st, typename) ==
    IF typename \in DOMAIN a.class_idx
    THEN AddTargets(g, a, st, SubSeq(a.class_idx[typename], 1, 1), "new", typename)
    ELSE st

\* the files declaring the type are added without the test against seen
NewBody_ignores_seen(g, a, st, typename) ==
    LET RECURSIVE F(_, _)
        F(acc, fids) ==
            IF fids = <<>> THEN acc
            ELSE F(IF Head(fids) # a.rec.id
                   THEN [matches |-> Append(acc.matches,
                                            [fid |-> Head(fids), by |-> "new",
                                             sym |-> typename]),
                         seen |-> acc.seen \cup {Head(fids)}]
                   ELSE acc,
                   Tail(fids))
    IN IF typename \in DOMAIN a.class_idx THEN F(st, a.class_idx[typename]) ELSE st

\* body of "for typename in new_types" (lines 268-272)
NewBody(g, a, st, typename) ==
    IF typename \in DOMAIN a.class_idx
    THEN AddTargets(g, a, st, a.class_idx[typename], "new", typename)
    ELSE st

\* lines 289-296, for the stripped non-empty argument tokens
RECURSIVE ArgVars(_, _, _, _)
ArgVars(g, a, st, args) ==
    IF args = <<>> THEN st
    ELSE LET arg == Head(args)
             st1 == IF arg \in DOMAIN a.rec.var_map
                       /\ a.rec.var_map[arg] \in DOMAIN a.class_idx
                    THEN AddTargets(g, a, st, a.class_idx[a.rec.var_map[arg]],
                                    "argvar", a.rec.var_map[arg])
                    ELSE st
         IN ArgVars(g, a, st1, Tail(args))

\* body of "for expr, args in invs" (lines 276-296)
InvBody(g, a, st, inv) ==
    LET parts == SplitOn(inv.expr, ".")
        method_or_type == Last(parts)
        qualifier == parts[1]
        st1 == IF Len(parts) > 1 /\ qualifier # <<>> /\ IsUpperChar(qualifier[1])
                  /\ qualifier \in DOMAIN a.class_idx
               THEN AddTargets(g, a, st, a.class_idx[qualifier], "qualifier", qualifier)
               ELSE st
        st2 == IF method_or_type \in DOMAIN a.method_idx
               THEN AddTargets(g, a, st1, a.method_idx[method_or_type], "method",
                               method_or_type)
               ELSE st1
        raw == SplitOn(inv.args, ",")
        args == SelectSeq([i \in DOMAIN raw |-> Strip(raw[i])], LAMBDA x : x # <<>>)
    IN ArgVars(g, a, st2, args)

\* lines 302-321 for one using, its matched ids iterated in the order ord
RECURSIVE UsingGather(_, _, _, _, _, _)
UsingGather(g, a, seenNow, cands, using, ord) ==
    IF ord = <<>> THEN cands
    ELSE LET fid == Head(ord)
             skip == \E target \in GlobalTarget(g, fid) :
                        LET fname == Lower(target.name) IN
                        \/ \E k \in DOMAIN g.USING_IGNORE_KEYWORDS :
                              Contains(g.USING_IGNORE_KEYWORDS[k], fname)
                        \/ \E k \in DOMAIN g.EXCLUDE_FILENAME_PATTERNS :
                              /\ g.EXCLUDE_FILENAME_PATTERNS[k] # <<>>
                              /\ Contains(g.EXCLUDE_FILENAME_PATTERNS[k], fname)
             cands1 == IF fid \notin seenNow /\ fid # a.rec.id /\ ~skip
                       THEN Append(cands, [fid |-> fid, using |-> using])
                       ELSE cands
         IN UsingGather(g, a, seenNow, cands1, using, Tail(ord))

\* the candidates are added whatever NO_USING_ONLY says
UsingDecide_always_add(g, st, cands) ==
    LET RECURSIVE F(_, _)
        F(acc, cs) ==
            IF cs = <<>> THEN acc
            ELSE F([matches |-> Append(acc.matches,
                                       [fid |-> Head(cs).fid, by |-> "using",
                                        sym |-> Head(cs).using]),
                    seen |-> acc.seen \cup {Head(cs).fid}], Tail(cs))
    IN F(st, cands)

\* lines 325-328
RECURSIVE UsingDecide(_, _, _)
UsingDecide(g, st, cands) ==
    IF cands = <<>> THEN st
    ELSE LET c == Head(cands)
             st1 == IF c.fid \in st.seen \/ ~g.NO_USING_ONLY
                    THEN [matches |-> Append(st.matches,
                                             [fid |-> c.fid, by |-> "using",
                                              sym |-> c.using]),
                          seen |-> st.seen \cup {c.fid}]
                    ELSE st
         IN UsingDecide(g, st1, Tail(cands))

\* lines 335-341, over the records the module's globals hold
RECURSIVE FilenameScan(_, _, _, _, _)
FilenameScan(g, a, st, t, rs) ==
    IF rs = <<>> THEN st
    ELSE LET r == Head(rs)
             st1 == IF Lower(r.name) = Lower(t) \o DotCs
                    THEN AddTargets(g, a, st, <<r.id>>, "filename", t)
                    ELSE st
         IN FilenameScan(g, a, st1, t, Tail(rs))

\* body of "for t in set(list(param_field_types) + list(new_types))"
FilenameBody(g, a, st, t) ==
    IF t \notin DOMAIN a.class_idx
    THEN FilenameScan(g, a, st, t, Get(g, "records", <<>>))
    ELSE st

\* the orders in which a set may be iterated
Orders(S) ==
    {o \in [1..Cardinality(S) -> S] : \A i, j \in 1..Cardinality(S) : o[i] = o[j] => i = j}

\* collections.defaultdict(list): d[k] stores an empty list under every key
\* that is absent
Indexed(d, keys) ==
    [k \in DOMAIN d \cup keys |-> IF k \in DOMAIN d THEN d[k] ELSE <<>>]

\* d[k] is evaluated without the test "k in d"
Lookup_unguarded(d, keys) == Indexed(d, keys)

\* the dictionary after "if k in d: ... d[k]" for each of the keys
\* (lines 253-254, 258-260, 268-269, 280-281, 285-286, 292-293)
Lookup(d, keys) == Indexed(d, keys \cap DOMAIN d)

\* the class index and the DI map after the lookups of ParamBody
ParamLookups(a, t) ==
    LET impls == IF t \in DOMAIN a.di_map THEN Range(a.di_map[t]) ELSE {}
    IN [class_idx |-> Lookup(a.class_idx, {t} \cup impls),
        di_map |-> Lookup(a.di_map, {t})]

\* the class index after the lookup of NewBody
NewLookups(a, typename) == Lookup(a.class_idx, {typename})

\* the class index and the method index after the lookups of InvBody
InvLookups(a, inv) ==
    LET parts == SplitOn(inv.expr, ".")
        qualifier == parts[1]
        raw == SplitOn(inv.args, ",")
        args == {Strip(raw[i]) : i \in DOMAIN raw} \ {<<>>}
        quals == IF Len(parts) > 1 /\ qualifier # <<>> /\ IsUpperChar(qualifier[1])
                 THEN {qualifier} ELSE {}
        types == {a.rec.var_map[arg] : arg \in args \cap DOMAIN a.rec.var_map}
    IN [class_idx |-> Lookup(a.class_idx, quals \cup types),
        method_idx |-> Lookup(a.method_idx, {Last(parts)})]

\* main, line 627: the args_tuple of the record being resolved
ArgsTuple ==
    [rec |-> records[p_idx], class_idx |-> class_idx, method_idx |-> method_idx,
     di_map |-> di_map, ns_to_ids |-> ns_to_ids]

State == [matches |-> matches, seen |-> seen]

\* lines 221-231
ImportsStart ==
    /\ p_pc = "start"
    /\ matches' = <<>>
    /\ seen' = {}
    /\ p_left' = records[p_idx].param_field_types
    /\ p_pc' = "param"
    /\ UNCHANGED <<p_idx, p_i, using_candidates, using_calls>>
    /\ UNCHANGED <<inputVars, depsVars, callsVars, indexVars>>

\* one iteration of "for t in param_field_types", a set
ImportsParam ==
    /\ p_pc = "param"
    /\ \E t \in p_left :
          LET st == ParamBody(globals, ArgsTuple, State, t) IN
          /\ matches' = st.matches
          /\ seen' = st.seen
          /\ p_left' = p_left \ {t}
          /\ class_idx' = ParamLookups(ArgsTuple, t).class_idx
          /\ di_map' = ParamLookups(ArgsTuple, t).di_map
    /\ UNCHANGED <<p_idx, p_pc, p_i, using_candidates, using_calls>>
    /\ UNCHANGED <<inputVars, depsVars, callsVars>>
    /\ UNCHANGED <<records, method_idx, ns_to_ids, di_regs, globals>>

ImportsParamDone ==
    /\ p_pc = "param"
    /\ p_left = {}
    /\ p_left' = records[p_idx].new_types
    /\ p_pc' = "new"
    /\ UNCHANGED <<p_idx, matches, seen, p_i, using_candidates, using_calls>>
    /\ UNCHANGED <<inputVars, depsVars, callsVars, indexVars>>

\* one iteration of "for typename in new_types", a set
ImportsNew ==
    /\ p_pc = "new"
    /\ \E t \in p_left :
          LET st == NewBody(globals, ArgsTuple, State, t) IN
          /\ matches' = st.matches
          /\ seen' = st.seen
          /\ p_left' = p_left \ {t}
          /\ class_idx' = NewLookups(ArgsTuple, t)
    /\ UNCHANGED <<p_idx, p_pc, p_i, using_candidates, using_calls>>
    /\ UNCHANGED <<inputVars, depsVars, callsVars>>
    /\ UNCHANGED <<records, method_idx, ns_to_ids, di_regs, di_map, globals>>

ImportsNewDone ==
    /\ p_pc = "new"
    /\ p_left = {}
    /\ p_i' = 1
    /\ p_pc' = "inv"
    /\ UNCHANGED <<p_idx, matches, seen, p_left, using_candidates, using_calls>>
    /\ UNCHANGED <<inputVars, depsVars, callsVars, indexVars>>

\* one iteration of "for expr, args in invs", a list
ImportsInvocation ==
    /\ p_pc = "inv"
    /\ p_i <= Len(records[p_idx].invocations)
    /\ LET st == InvBody(globals, ArgsTuple, State, records[p_idx].invocations[p_i]) IN
       /\ matches' = st.matches
       /\ seen' = st.seen
    /\ class_idx' = InvLookups(ArgsTuple, records[p_idx].invocations[p_i]).class_idx
    /\ method_idx' = InvLookups(ArgsTuple, records[p_idx].invocations[p_i]).method_idx
    /\ p_i' = p_i + 1
    /\ UNCHANGED <<p_idx, p_pc, p_left, using_candidates, using_calls>>
    /\ UNCHANGED <<inputVars, depsVars, callsVars>>
    /\ UNCHANGED <<records, ns_to_ids, di_regs, di_map, globals>>

ImportsInvDone ==
    /\ p_pc = "inv"
    /\ p_i > Len(records[p_idx].invocations)
    /\ p_i' = 1
    /\ using_candidates' = <<>>
    /\ using_calls' = <<>>
    /\ p_pc' = "using"
    /\ UNCHANGED <<p_idx, matches, seen, p_left>>
    /\ UNCHANGED <<inputVars, depsVars, callsVars, indexVars>>

\* one iteration of "for using in rec.get('usings', [])"; the set
\* match_using_to_file_ids returns is iterated in some order
ImportsUsingGather ==
    /\ p_pc = "using"
    /\ p_i <= Len(records[p_idx].usings)
    /\ LET using == records[p_idx].usings[p_i]
           ids == match_using_to_file_ids(globals, using, ns_to_ids)
       IN /\ \E ord \in Orders(ids) :
                using_candidates' =
                    UsingGather(globals, ArgsTuple, seen, using_candidates, using, ord)
          /\ using_calls' = Append(using_calls, [using |-> using, ids |-> ids])
    /\ p_i' = p_i + 1
    /\ UNCHANGED <<p_idx, p_pc, matches, seen, p_left>>
    /\ UNCHANGED <<inputVars, depsVars, callsVars, indexVars>>

\* lines 325-328: the candidates are added, or dropped under NO_USING_ONLY
ImportsUsingDecide ==
    /\ p_pc = "using"
    /\ p_i > Len(records[p_idx].usings)
    /\ LET st == UsingDecide(globals, State, using_candidates) IN
       /\ matches' = st.matches
       /\ seen' = st.seen
    /\ p_left' = records[p_idx].param_field_types \cup records[p_idx].new_types
    /\ p_pc' = "filename"
    /\ UNCHANGED <<p_idx, p_i, using_candidates, using_calls>>
    /\ UNCHANGED <<inputVars, depsVars, callsVars, indexVars>>

\* one iteration of the filename fallback loop, over a set
ImportsFilename ==
    /\ p_pc = "filename"
    /\ \E t \in p_left :
          LET st == FilenameBody(globals, ArgsTuple, State, t) IN
          /\ matches' = st.matches
          /\ seen' = st.seen
          /\ p_left' = p_left \ {t}
    /\ UNCHANGED <<p_idx, p_pc, p_i, using_candidates, using_calls>>
    /\ UNCHANGED <<inputVars, depsVars, callsVars, indexVars>>

\* line 343: return rec['id'], rec['relpath'], matches
ImportsReturn ==
    /\ p_pc = "filename"
    /\ p_left = {}
    /\ p_pc' = "return"
    /\ UNCHANGED <<p_idx, matches, seen, p_left, p_i, using_candidates, using_calls>>
    /\ UNCHANGED <<inputVars, depsVars, callsVars, indexVars>>

\* main, lines 623-635: the rows are written and the next record is taken
ImportsNextRecord ==
    /\ p_pc = "return"
    /\ IF p_idx < Len(records)
       THEN p_idx' = p_idx + 1 /\ p_pc' = "start"
       ELSE p_idx' = p_idx /\ p_pc' = "end"
    /\ UNCHANGED <<matches, seen, p_left, p_i, using_candidates, using_calls>>
    /\ UNCHANGED <<inputVars, depsVars, callsVars, indexVars>>

----------------------------------------------------------------------------
(* generate_imports_from_source.py: the caches main fills from a text      *)
(* A text is the sequence of its tokens, white space left out: words,      *)
(* dotted names and the punctuation marks.                                 *)

KwVar == <<"v", "a", "r">>
KwNew == <<"n", "e", "w">>
Eq == <<"=">>
LPar == <<"(">>
RPar == <<")">>
Comma == <<",">>
Semi == <<";">>

Digits == {"0", "1", "2", "3", "4", "5", "6", "7", "8", "9"}

\* [A-Za-z0-9_]
WordChars == Range(UpperAlpha) \cup Range(LowerAlpha) \cup Digits \cup {"_"}

\* the token matches [A-Za-z0-9_]+
IsWord(tok) == tok # <<>> /\ \A i \in DOMAIN tok : tok[i] \in WordChars

\* the token matches [A-Za-z0-9_\.]+
IsDotted(tok) == tok # <<>> /\ \A i \in DOMAIN tok : tok[i] \in WordChars \cup {"."}

\* d[k] = v
Put(d, k, v) == [x \in DOMAIN d \cup {k} |-> IF x = k THEN v ELSE d[x]]

\* \bvar\s+(name)\s*=\s*new\s+(type) matches at token i
VarNewAt(text, i) ==
    /\ i + 4 <= Len(text)
    /\ text[i] = KwVar
    /\ IsWord(text[i + 1])
    /\ text[i + 2] = Eq
    /\ text[i + 3] = KwNew
    /\ IsWord(text[i + 4])

\* \b(type)\s+(name)\s*=\s*new\s+(type2) matches at token i
TypedNewAt(text, i) ==
    /\ i + 4 <= Len(text)
    /\ IsWord(text[i])
    /\ IsWord(text[i + 1])
    /\ text[i + 2] = Eq
    /\ text[i + 3] = KwNew
    /\ IsWord(text[i + 4])

\* the first loop of find_variable_type_map, from token i on
RECURSIVE ScanVarNew(_, _, _)
ScanVarNew(vm, text, i) ==
    IF i > Len(text) THEN vm
    ELSE ScanVarNew(IF VarNewAt(text, i) THEN Put(vm, text[i + 1], text[i + 4]) ELSE vm,
                    text, i + 1)

\* the second loop of find_variable_type_map, from token i on
RECURSIVE ScanTypedNew(_, _, _)
ScanTypedNew(vm, text, i) ==
    IF i > Len(text) THEN vm
    ELSE ScanTypedNew(IF TypedNewAt(text, i) THEN Put(vm, text[i + 1], text[i]) ELSE vm,
                      text, i + 1)

\* find_variable_type_map: both loops write the same dictionary
find_variable_type_map(text) == ScanTypedNew(ScanVarNew(<<>>, text, 1), text, 1)

\* the token ends with the given characters
EndsWith(tok, suffix) ==
    /\ Len(tok) >= Len(suffix)
    /\ SubSeq(tok, Len(tok) - Len(suffix) + 1, Len(tok)) = suffix

\* main, line 573: the names new\s+([A-Za-z0-9_]+) captures
NewTypesOf(text) ==
    {text[j + 1] : j \in {i \in 1..(Len(text) - 1) :
                            EndsWith(text[i], KwNew) /\ IsWord(text[i + 1])}}

\* the argument tokens as the text has them, a blank after each comma
RECURSIVE JoinArgs(_)
JoinArgs(toks) ==
    IF toks = <<>> THEN <<>>
    ELSE IF Head(toks) = Comma /\ Len(toks) > 1
         THEN Comma \o <<" ">> \o JoinArgs(Tail(toks))
         ELSE Head(toks) \o JoinArgs(Tail(toks))

\* extract_invocations, from token i on: ([A-Za-z0-9_\.]+)\s*\(([^)]*)\)
RECURSIVE ScanInvocations(_, _)
ScanInvocations(text, i) ==
    IF i >= Len(text) THEN <<>>
    ELSE LET closers == {j \in (i + 2)..Len(text) : text[j] = RPar} IN
         IF IsDotted(text[i]) /\ text[i + 1] = LPar /\ closers # {}
         THEN LET j == CHOOSE c \in closers : \A d \in closers : c <= d
              IN <<[expr |-> text[i], args |-> JoinArgs(SubSeq(text, i + 2, j - 1))]>>
                 \o ScanInvocations(text, j + 1)
         ELSE ScanInvocations(text, i + 1)

extract_invocations(text) == ScanInvocations(text, 1)

----------------------------------------------------------------------------
(* Inputs of the dependency model *)

File(dir, name) == [dir |-> dir, name |-> name]

a_ts == File(<<>>, <<"a", ".ts">>)
b_ts == File(<<>>, <<"b", ".ts">>)
X_cs == File(<<>>, <<"X", ".cs">>)
Y_cs == File(<<>>, <<"Y", ".cs">>)

GraphFiles == {a_ts, b_ts, X_cs, Y_cs}

NsP == <<"P">>
NsPQ == <<"P", ".", "Q">>

\* the symbol each file declares, and the namespace of the C# files
OwnSymbol(f) == f.name[1]
OwnNamespace(f) == IF f = X_cs THEN NsP ELSE NsPQ

\* the other file of the same language
Other(f) == CASE f = a_ts -> b_ts [] f = b_ts -> a_ts
              [] f = X_cs -> Y_cs [] f = Y_cs -> X_cs

Imp(f) == <<Cur, <<OwnSymbol(f)>>>>

TsSource(f, imp, w) ==
    [exports |-> {OwnSymbol(f)}, imports |-> imp, words |-> {OwnSymbol(f)} \cup w]

CsSource(f, us, w) ==
    [types |-> {OwnSymbol(f)}, namespaces |-> {OwnNamespace(f)}, usings |-> us,
     words |-> {OwnSymbol(f)} \cup w, methods |-> NoMethods]

\* what a file's text may hold besides its own declaration: nothing, one
\* import or using (of itself or of the other file), one foreign identifier,
\* or an import or using together with a foreign identifier
TsSources(f) ==
    {TsSource(f, <<>>, {}),
     TsSource(f, <<Imp(f)>>, {}),
     TsSource(f, <<Imp(Other(f))>>, {}),
     TsSource(f, <<>>, {"X"}),
     TsSource(f, <<>>, {OwnSymbol(Other(f))}),
     TsSource(f, <<Imp(Other(f))>>, {"Y"})}

CsSources(f) ==
    {CsSource(f, <<>>, {}),
     CsSource(f, <<OwnNamespace(Other(f))>>, {}),
     CsSource(f, <<OwnNamespace(f)>>, {"a"}),
     CsSource(f, <<>>, {OwnSymbol(Other(f))}),
     CsSource(f, <<>>, {"b"}),
     CsSource(f, <<OwnNamespace(Other(f))>>, {"a"})}

GraphSources ==
    {s \in [GraphFiles -> UNION {TsSources(f) : f \in {a_ts, b_ts}}
                          \cup UNION {CsSources(f) : f \in {X_cs, Y_cs}}] :
        \A f \in GraphFiles :
            s[f] \in (IF IsTs(f) THEN TsSources(f) ELSE CsSources(f))}

ImportsIdle ==
    /\ records = <<>>
    /\ class_idx = <<>>
    /\ method_idx = <<>>
    /\ ns_to_ids = <<>>
    /\ di_regs = <<>>
    /\ di_map = <<>>
    /\ globals = <<>>
    /\ p_idx = 0
    /\ p_pc = "idle"
    /\ matches = <<>>
    /\ seen = {}
    /\ p_left = {}
    /\ p_i = 0
    /\ using_candidates = <<>>
    /\ using_calls = <<>>

CallsIdle ==
    /\ c_pc = "idle"
    /\ c_left = {}
    /\ c_mname = ""
    /\ c_levels = <<>>
    /\ c_lvl = 0
    /\ c_todo = {}
    /\ c_result = <<>>

InitDeps ==
    /\ fs = GraphFiles
    /\ disk = <<>>
    /\ \E s \in GraphSources : idxs = build_indexes(list_source_files(fs), s)
    /\ relpath \in list_source_files(fs)
    /\ max_levels \in 1..MaxLevels
    /\ deps_levels = <<>>
    /\ visited = {}
    /\ lvl = 0
    /\ todo = {}
    /\ pc = "start"
    /\ run = 1
    /\ prev_levels = <<>>
    /\ CallsIdle
    /\ ImportsIdle

NextDeps ==
    \/ DepsLevel1
    \/ DepsExpandFile
    \/ DepsNextLevel
    \/ DepsRerun

SpecDeps == InitDeps /\ [][NextDeps]_vars

----------------------------------------------------------------------------
(* Inputs of the import-resolution model: importer app/a.ts and the files  *)
(* an import of "b" could name                                             *)

app_a_ts == File(<<"app">>, <<"a", ".ts">>)
app_b_ts == File(<<"app">>, <<"b", ".ts">>)
app_b_js == File(<<"app">>, <<"b", ".js">>)
app_b_cs == File(<<"app">>, <<"b", ".cs">>)
app_b == File(<<"app">>, <<"b">>)
app_b_index_ts == File(<<"app", "b">>, <<"index", ".ts">>)
root_b_ts == File(<<>>, <<"b", ".ts">>)

OptionalFiles == {app_b_ts, app_b_js, app_b_cs, app_b, app_b_index_ts, root_b_ts}

\* app/b is a file or a directory, not both
FileSystems ==
    {{app_a_ts} \cup S : S \in {T \in SUBSET OptionalFiles :
                                  ~(app_b \in T /\ app_b_index_ts \in T)}}

SpecDotB == <<Cur, <<"b">>>>
SpecUpB == <<Up, <<"b">>>>
SpecBare == <<(<<"b">>)>>
SpecDotBts == <<Cur, <<"b", ".ts">>>>

ImporterSpecs == {SpecDotB, SpecUpB, SpecBare, SpecDotBts}

ResolveSources(files, spec, back) ==
    [f \in files |->
        IF IsTs(f)
        THEN [exports |-> {f.name[1]},
              imports |-> IF f = app_a_ts THEN <<spec>> ELSE back,
              words |-> {f.name[1]}]
        ELSE [types |-> {f.name[1]}, namespaces |-> {NsP}, usings |-> <<>>,
              words |-> {f.name[1]}, methods |-> NoMethods]]

InitResolve ==
    /\ fs \in FileSystems
    /\ disk = <<>>
    /\ \E spec \in ImporterSpecs, back \in {<<>>, <<(<<Cur, <<"a">>>>)>>} :
          idxs = build_indexes(list_source_files(fs),
                               ResolveSources(list_source_files(fs), spec, back))
    /\ relpath \in list_source_files(fs)
    /\ max_levels \in 1..MaxLevels
    /\ deps_levels = <<>>
    /\ visited = {}
    /\ lvl = 0
    /\ todo = {}
    /\ pc = "start"
    /\ run = 1
    /\ prev_levels = <<>>
    /\ CallsIdle
    /\ ImportsIdle

SpecResolve == InitResolve /\ [][NextDeps]_vars

----------------------------------------------------------------------------
(* Inputs of the call-graph model: X.cs may declare M and P, Y.cs may      *)
(* declare P and Q, each with one of a few bodies                          *)

Call(full) == [kind |-> "call", full |-> full]
Text == [kind |-> "text", full |-> <<>>]

Bodies ==
    {<<>>,
     <<Text>>,
     <<Call(<<"M">>)>>,
     <<Call(<<"this", "P">>)>>,
     <<Text, Call(<<"svc", "Q">>)>>,
     <<Call(<<"P">>), Call(<<"y", "Q">>)>>}

MethodSlots(f) == IF f = X_cs THEN {"M", "P"} ELSE {"P", "Q"}

\* the method tables a file may have: any subset of its slots declared
MethodTables(f) ==
    UNION {[D -> Bodies] : D \in SUBSET MethodSlots(f)}

CallFiles == {X_cs, Y_cs}

InitCalls ==
    /\ fs = CallFiles
    /\ disk = <<>>
    /\ \E mx \in MethodTables(X_cs), my \in MethodTables(Y_cs) :
          idxs = build_indexes(list_source_files(fs),
                    [f \in CallFiles |->
                        [types |-> {OwnSymbol(f)}, namespaces |-> {OwnNamespace(f)},
                         usings |-> <<>>, words |-> {OwnSymbol(f)},
                         methods |-> IF f = X_cs THEN mx ELSE my]])
    /\ relpath \in list_source_files(fs)
    /\ max_levels \in 1..MaxLevels
    /\ deps_levels = <<>>
    /\ visited = {}
    /\ lvl = 0
    /\ todo = {}
    /\ pc = "idle"
    /\ run = 1
    /\ prev_levels = <<>>
    /\ c_pc = "start"
    /\ c_left = {}
    /\ c_mname = ""
    /\ c_levels = <<>>
    /\ c_lvl = 0
    /\ c_todo = {}
    /\ c_result = <<>>
    /\ ImportsIdle

NextCalls ==
    \/ CallsStart
    \/ CallsMethodLevel1
    \/ CallsExpandItem
    \/ CallsNextLevel

SpecCalls == InitCalls /\ [][NextCalls]_vars

----------------------------------------------------------------------------
(* Inputs of the reading model: build_indexes reads X.cs and Y.cs from     *)
(* disk.  A stored file is [readable, bytes]; bytes is a sequence of       *)
(* chunks, each a piece of valid text that declares a type, opens a        *)
(* namespace, has a using or mentions an identifier, or a byte sequence    *)
(* that is not UTF-8 (kind "bad").                                         *)

\* name is the type or identifier of the chunk, ns its namespace
Chunk(kind, name, ns) == [kind |-> kind, name |-> name, ns |-> ns]
BadBytes == Chunk("bad", "", <<>>)

\* read_text: path.read_text(encoding="utf-8", errors="ignore"), '' on an
\* exception
read_text(raw) ==
    IF ~raw.readable THEN <<>>
    ELSE SelectSeq(raw.bytes, LAMBDA c : c.kind # "bad")

\* extract_cs_declarations_and_usings and the method scan, on a text
extract_cs_declarations_and_usings(text) ==
    LET of(kind) == SelectSeq(text, LAMBDA c : c.kind = kind) IN
    [types |-> {c.name : c \in Range(of("type"))},
     namespaces |-> {c.ns : c \in Range(of("namespace"))},
     usings |-> [i \in DOMAIN of("using") |-> of("using")[i].ns],
     words |-> {c.name : c \in Range(of("type")) \cup Range(of("ident"))},
     methods |-> NoMethods]

\* build_indexes, lines 148-160: each file is read and scanned
ReadSources(files, d) ==
    [f \in files |-> extract_cs_declarations_and_usings(read_text(d[f]))]

StoredFiles(f) ==
    LET own == Chunk("type", OwnSymbol(f), <<>>)
        ns == Chunk("namespace", "", OwnNamespace(f))
        ref == Chunk("ident", OwnSymbol(Other(f)), <<>>)
        us == Chunk("using", "", OwnNamespace(Other(f)))
    IN {[readable |-> TRUE, bytes |-> <<ns, own>>],
        [readable |-> TRUE, bytes |-> <<ns, own, ref>>],
        [readable |-> TRUE, bytes |-> <<us, ns, own>>],
        [readable |-> FALSE, bytes |-> <<ns, own, ref>>],
        [readable |-> TRUE, bytes |-> <<BadBytes>>],
        [readable |-> TRUE, bytes |-> <<ns, own, BadBytes, ref>>],
        [readable |-> TRUE, bytes |-> <<BadBytes, us, ns>>]}

InitRead ==
    /\ fs = CallFiles
    /\ disk \in {d \in [CallFiles -> StoredFiles(X_cs) \cup StoredFiles(Y_cs)] :
                    \A f \in CallFiles : d[f] \in StoredFiles(f)}
    /\ idxs = build_indexes(list_source_files(fs), ReadSources(list_source_files(fs), disk))
    /\ relpath \in list_source_files(fs)
    /\ max_levels \in 1..MaxLevels
    /\ deps_levels = <<>>
    /\ visited = {}
    /\ lvl = 0
    /\ todo = {}
    /\ pc = "start"
    /\ run = 1
    /\ prev_levels = <<>>
    /\ CallsIdle
    /\ ImportsIdle

SpecRead == InitRead /\ [][NextDeps]_vars

----------------------------------------------------------------------------
(* Inputs of the project model: process_project computes, for a file, the  *)
(* dependency levels and then the method calls, on one index.  a.ts and    *)
(* b.ts import each other; X.cs and Y.cs may reference each other and      *)
(* declare methods that may call each other.                               *)

ProjectCsRefs(f) ==
    {CsSource(f, <<>>, {}),
     CsSource(f, <<>>, {OwnSymbol(Other(f))}),
     CsSource(f, <<OwnNamespace(Other(f))>>, {"a"})}

ProjectMethods(f) ==
    {NoMethods,
     [m \in {"P"} |-> <<Call(<<"P">>)>>],
     [m \in MethodSlots(f) |-> <<Call(<<"P">>), Call(<<"y", "Q">>)>>],
     [m \in MethodSlots(f) |-> IF m = "P" THEN <<Call(<<"M">>)>> ELSE <<Text>>]}

ProjectSources ==
    {[f \in GraphFiles |->
        IF IsTs(f) THEN TsSource(f, <<Imp(Other(f))>>, {})
        ELSE IF f = X_cs THEN [rx EXCEPT !.methods = mx]
        ELSE [ry EXCEPT !.methods = my]] :
     rx \in ProjectCsRefs(X_cs), ry \in ProjectCsRefs(Y_cs),
     mx \in ProjectMethods(X_cs), my \in ProjectMethods(Y_cs)}

InitProject ==
    /\ fs = GraphFiles
    /\ disk = <<>>
    /\ \E s \in ProjectSources : idxs = build_indexes(list_source_files(fs), s)
    /\ relpath \in list_source_files(fs)
    /\ max_levels \in 1..MaxLevels
    /\ deps_levels = <<>>
    /\ visited = {}
    /\ lvl = 0
    /\ todo = {}
    /\ pc = "start"
    /\ run = MaxRuns
    /\ prev_levels = <<>>
    /\ CallsIdle
    /\ ImportsIdle

\* process_project, lines 370-371: compute_dependencies_for_file has
\* returned and compute_method_calls_for_file is called
ProjectMethodCalls ==
    /\ pc = "done"
    /\ c_pc = "idle"
    /\ c_pc' = "start"
    /\ UNCHANGED <<c_left, c_mname, c_levels, c_lvl, c_todo, c_result>>
    /\ UNCHANGED <<inputVars, depsVars, importsVars>>

NextProject ==
    \/ DepsLevel1
    \/ DepsExpandFile
    \/ DepsNextLevel
    \/ ProjectMethodCalls
    \/ CallsStart
    \/ CallsMethodLevel1
    \/ CallsExpandItem
    \/ CallsNextLevel

\* the interpreter runs the loops to their end
SpecProject == InitProject /\ [][NextProject]_vars /\ WF_vars(NextProject)

----------------------------------------------------------------------------
(* Inputs of the import model: three C# files, ids by sorted path *)

Foo == <<"F", "o", "o">>
IFoo == <<"I">> \o Foo
Bar == <<"B", "a", "r">>
Svc == <<"S", "v", "c">>
Save == <<"S", "a", "v", "e">>
VarX == <<"x">>
App == <<"A", "p", "p">>
NsA == <<"A">>
NsAB == <<"A", ".", "B">>
NsABC == <<"A", ".", "B", ".", "C">>
NsAx == <<"A", "B">>

FileNames == <<Foo \o DotCs, IFoo \o DotCs, Svc \o DotCs>>

VarY == <<"y">>
Run == <<"R", "u", "n">>

\* a record of main's list, with the caches of lines 559-575 filled in from
\* the text of the file
SourceRecord(id, classes, methods, nss, us, pft, text) ==
    [id |-> id, name |-> FileNames[id],
     declared_classes |-> classes, declared_methods |-> methods,
     declared_namespaces |-> nss, usings |-> us,
     text |-> text,
     param_field_types |-> pft,
     new_types |-> NewTypesOf(text),
     var_map |-> find_variable_type_map(text),
     invocations |-> extract_invocations(text)]

NoText == <<>>

\* "new Foo(); new Bar();"
TextNewFooBar == <<KwNew, Foo, LPar, RPar, Semi, KwNew, Bar, LPar, RPar, Semi>>

\* "Foo x = new Foo(); Foo.Save(x, y);"
TextTypedFoo ==
    <<Foo, VarX, Eq, KwNew, Foo, LPar, RPar, Semi,
      Foo \o Dot \o Save, LPar, VarX, Comma, VarY, RPar, Semi>>

\* "Foo x = new Bar(); Save(); Foo.Save(x, y);"
TextTypedBar ==
    <<Foo, VarX, Eq, KwNew, Bar, LPar, RPar, Semi, Save, LPar, RPar, Semi,
      Foo \o Dot \o Save, LPar, VarX, Comma, VarY, RPar, Semi>>

\* "new IFoo(); Save();"
TextNewIFoo == <<KwNew, IFoo, LPar, RPar, Semi, Save, LPar, RPar, Semi>>

\* "Foo x = new Bar(); Run(x);"
TextTypedRun ==
    <<Foo, VarX, Eq, KwNew, Bar, LPar, RPar, Semi, Run, LPar, VarX, RPar, Semi>>

\* "var x = new Foo(); Run(x);"
TextVarRun ==
    <<KwVar, VarX, Eq, KwNew, Foo, LPar, RPar, Semi, Run, LPar, VarX, RPar, Semi>>

\* "var x = new Svc(); Bar y = new Foo(); Run(x, y);"
TextVarTyped ==
    <<KwVar, VarX, Eq, KwNew, Svc, LPar, RPar, Semi,
      Bar, VarY, Eq, KwNew, Foo, LPar, RPar, Semi,
      Run, LPar, VarX, Comma, VarY, RPar, Semi>>

Reg(i, m) == [iface |-> i, impl |-> m]

\* the registrations the scan of the tree finds
DiRegistrations ==
    { <<>>,
      <<Reg(IFoo, Foo)>>,
      <<Reg(App \o Dot \o IFoo, App \o Dot \o Foo), Reg(IFoo, Bar),
        Reg(IFoo, App \o Dot \o Foo)>> }

\* the declarations of Foo.cs and of IFoo.cs
DeclsFoo == { <<Foo>>, <<Foo, IFoo>>, <<Foo, Bar>>, <<Bar>> }
DeclsIFoo == { <<IFoo>>, <<Foo>>, <<>> }

\* the evidence of Svc.cs: (param_field_types, text)
Evidence ==
    { <<{Foo}, NoText>>,
      <<{IFoo}, NoText>>,
      <<{IFoo, Foo}, NoText>>,
      <<{IFoo, Bar}, NoText>>,
      <<{Foo}, TextNewFooBar>>,
      <<{}, TextTypedFoo>>,
      <<{Bar}, TextTypedBar>>,
      <<{Svc}, TextNewIFoo>>,
      <<{}, TextTypedRun>>,
      <<{}, TextVarRun>>,
      <<{}, TextVarTyped>> }

\* the --exclude-filename-pattern values of the command line
ExcludeArgs == { <<>>, <<Foo>> }

\* the orders in which the declaration workers complete
CompletionOrders == { <<1, 2, 3>>, <<3, 2, 1>> }

\* main, lines 506-512: the module's globals after the CLI is applied
Globals(strict, excl, nuo) ==
    [GLOBAL_STRICT_USINGS |-> strict,
     USING_IGNORE_KEYWORDS |-> USING_IGNORE_KEYWORDS,
     EXCLUDE_FILENAME_PATTERNS |-> [i \in DOMAIN excl |-> Lower(excl[i])],
     NO_USING_ONLY |-> nuo]

\* main, lines 547-585
MainSetup(recs, regs, order, g) ==
    /\ records = recs
    /\ class_idx = build_decl_indexes_parallel(recs, order).class_idx
    /\ method_idx = build_decl_indexes_parallel(recs, order).method_idx
    /\ ns_to_ids = build_namespace_index(recs)
    /\ di_regs = regs
    /\ di_map = build_di_registration_map(regs)
    /\ globals = g
    /\ p_idx = 1
    /\ p_pc = "start"
    /\ matches = <<>>
    /\ seen = {}
    /\ p_left = {}
    /\ p_i = 0
    /\ using_candidates = <<>>
    /\ using_calls = <<>>

\* trees that differ in their type declarations and references
InitTypes ==
    \E d1 \in DeclsFoo, d2 \in DeclsIFoo, e \in Evidence, regs \in DiRegistrations,
       order \in CompletionOrders, excl \in ExcludeArgs :
        MainSetup(<< SourceRecord(1, d1, <<Save>>, <<>>, <<>>, {}, NoText),
                     SourceRecord(2, d2, <<>>, <<>>, <<>>, {Foo}, NoText),
                     SourceRecord(3, <<Svc>>, <<>>, <<>>, <<>>, e[1], e[2]) >>,
                  regs, order, Globals(FALSE, excl, FALSE))

\* trees that differ in their namespaces and usings
InitUsings ==
    \E n1 \in { <<NsAB>>, <<NsA>>, <<NsA, NsAB>> },
       n2 \in { <<>>, <<NsABC>>, <<NsAx>>, <<NsA>> },
       u2 \in { <<>>, <<NsA>> },
       u3 \in { <<NsA>>, <<NsAB>>, <<NsA, NsAB>>, <<NsABC>>, <<NsAx>> },
       pft \in { {}, {Foo} },
       strict \in BOOLEAN, nuo \in BOOLEAN, excl \in ExcludeArgs :
        MainSetup(<< SourceRecord(1, <<Foo>>, <<>>, n1, <<>>, {}, NoText),
                     SourceRecord(2, <<IFoo>>, <<>>, n2, u2, {}, NoText),
                     SourceRecord(3, <<Svc>>, <<>>, <<NsAx>>, u3, pft, NoText) >>,
                  <<>>, <<1, 2, 3>>, Globals(strict, excl, nuo))

DepsIdle ==
    /\ fs = {}
    /\ disk = <<>>
    /\ idxs = <<>>
    /\ relpath = <<>>
    /\ max_levels = 1
    /\ deps_levels = <<>>
    /\ visited = {}
    /\ lvl = 0
    /\ todo = {}
    /\ pc = "idle"
    /\ run = 0
    /\ prev_levels = <<>>

InitImports ==
    /\ DepsIdle
    /\ CallsIdle
    /\ InitTypes \/ InitUsings

NextImports ==
    \/ ImportsStart
    \/ ImportsParam
    \/ ImportsParamDone
    \/ ImportsNew
    \/ ImportsNewDone
    \/ ImportsInvocation
    \/ ImportsInvDone
    \/ ImportsUsingGather
    \/ ImportsUsingDecide
    \/ ImportsFilename
    \/ ImportsReturn
    \/ ImportsNextRecord

SpecImports == InitImports /\ [][NextImports]_vars

----------------------------------------------------------------------------
(* Both programs: process_project of generate_file_sheets.py resolving a  *)
(* file, or main of generate_imports_from_source.py resolving its records *)

InitPrograms == InitProject \/ InitImports

NextPrograms == NextProject \/ NextImports

SpecPrograms == InitPrograms /\ [][NextPrograms]_vars

----------------------------------------------------------------------------
(* Claims about compute_dependencies_for_file *)

Levels == 1..max_levels

\* C1: the root file is in none of the level sets 1..N returned for it.
CE_C1_RootInNoLevel ==
    pc = "done" => \A k \in Levels : relpath \notin deps_levels[k]

\* C3: the level sets 1..N are pairwise disjoint, and a file of level k is
\* a direct target of no file of a level below k-1 (it sits in the first
\* level at which the expansion reaches it).
Thm_C3_LevelsDisjoint ==
    deps_levels # <<>> =>
        /\ \A i \in Levels, j \in Levels :
              i < j => deps_levels[i] \cap deps_levels[j] = {}
        /\ pc = "done" =>
              \A k \in Levels : \A d \in deps_levels[k] :
                 \A j \in Levels : \A f \in deps_levels[j] :
                    d \in DirectTargets(fs, idxs, f) => k <= j + 1

\* C3 witness: a file of level 2 references a file already placed in
\* level 1, and level 3 is not empty.
Wit_C3_DedupeAcrossLevels ==
    /\ pc = "done"
    /\ max_levels >= 3
    /\ deps_levels[3] # {}
    /\ \E f \in deps_levels[2] : DirectTargets(fs, idxs, f) \cap deps_levels[1] # {}

\* the files within k direct references of f, a direct reference of g being
\* a member of the level-1 set computed for g as a root
RECURSIVE ReachWithin(_, _)
ReachWithin(f, k) ==
    IF k = 0 THEN {f}
    ELSE LET r == ReachWithin(f, k - 1)
         IN r \cup UNION {Level1Targets(fs, idxs, g) : g \in r}

\* C4: a file other than the root is in level k exactly when its shortest
\* chain of direct references from the root has k hops.
CE_C4_LevelIsDistance ==
    pc = "done" =>
        \A c \in fs \ {relpath} : \A k \in Levels :
            c \in deps_levels[k]
            <=> (c \in ReachWithin(relpath, k) /\ c \notin ReachWithin(relpath, k - 1))

\* C5: a second call on the unchanged index with the same N returns the
\* level sets of the first call, whatever the iteration orders were.
Thm_C5_RerunSameLevels ==
    (pc = "done" /\ run > 1) => deps_levels = prev_levels

\* C5 witness: a rerun has finished on a graph where level 1 holds two
\* files, one of which references the other, and level 2 is not empty.
Wit_C5_RerunWithChoice ==
    /\ pc = "done"
    /\ run > 1
    /\ max_levels >= 2
    /\ deps_levels[2] # {}
    /\ \E f \in deps_levels[1] : \E g \in deps_levels[1] \ {f} :
          g \in DirectTargets(fs, idxs, f)

\* C6: for an import "./n" of root A, every file n + ext (ext recognized)
\* of A's directory that exists is returned by resolve_ts_import and is in
\* level 1; when neither the literal path, nor the path plus an extension,
\* nor an index file of the directory exists, nothing is returned and
\* level 1 holds identifier matches only.
Thm_C6_RelativeImport ==
    (deps_levels # <<>> /\ IsTs(relpath)) =>
        LET imports == Get(idxs.ts_imports, relpath, <<>>) IN
        \A i \in DOMAIN imports :
            LET spec == imports[i] IN
            (Len(spec) = 2 /\ spec[1] = Cur /\ Len(spec[2]) = 1) =>
                LET n == spec[2][1]
                    sibling(ext) == File(relpath.dir, <<n, ext>>)
                    index(ext) == File(Append(relpath.dir, n), <<"index", ext>>)
                    resolved == resolve_ts_import(fs, relpath, spec)
                IN /\ \A ext \in Range(TS_EXTS) :
                         sibling(ext) \in fs =>
                            /\ sibling(ext) \in Range(resolved)
                            /\ sibling(ext) \in deps_levels[1]
                   /\ (/\ File(relpath.dir, <<n>>) \notin fs
                       /\ \A ext \in Range(TS_EXTS) :
                             sibling(ext) \notin fs /\ index(ext) \notin fs)
                      => /\ resolved = <<>>
                         /\ Len(imports) = 1 =>
                               deps_levels[1] =
                                  IdentTargets(idxs, relpath,
                                               Get(idxs.file_texts, relpath, {}))

\* C6 witness: app/a.ts imports "./b", only app/b.js exists under that
\* name, and app/b.js is in level 1.
Wit_C6_ResolvedByExtension ==
    /\ deps_levels # <<>>
    /\ relpath = app_a_ts
    /\ idxs.ts_imports[app_a_ts] = <<SpecDotB>>
    /\ app_b_js \in fs
    /\ app_b_ts \notin fs
    /\ app_b_js \in deps_levels[1]

----------------------------------------------------------------------------
(* Claims about compute_method_calls_for_file *)

\* C2: for every method M of file F, the entry 'F::M' is in none of the
\* call-level sets 1..N returned for M.
CE_C2_MethodInNoOwnLevel ==
    c_pc = "return" =>
        \A m \in DOMAIN c_result : \A k \in Levels :
            <<relpath, m>> \notin c_result[m][k]

----------------------------------------------------------------------------
(* Claims about process_record_imports and match_using_to_file_ids *)

\* the record process_record_imports has just resolved
Returned == p_pc = "return"

Declares(gid, t) == t \in Range(records[gid].declared_classes)

EdgeTo(gid, reasons) ==
    \E k \in DOMAIN matches : matches[k].fid = gid /\ matches[k].by \in reasons

ShortName(s) == Last(SplitOn(s, "."))

\* the registrations bind interface i to implementation m (short names)
Registered(i, m) ==
    \E r \in DOMAIN di_regs :
        ShortName(di_regs[r].iface) = i /\ ShortName(di_regs[r].impl) = m

\* C7 as stated: for every file X whose parameter/field type evidence
\* contains a type, every other file declaring that type is in the edge
\* list returned for X with reason 'param'.
CE_C7_DeclaringFileTaggedParam ==
    Returned =>
        \A t \in records[p_idx].param_field_types :
            \A gid \in DOMAIN records :
                (gid # p_idx /\ Declares(gid, t)) => EdgeTo(gid, {"param"})

\* C7 amended: every other file declaring a type of X's parameter/field
\* evidence is in the edge list returned for X, with reason 'param', or
\* with reason 'di' when that file also declares an implementation the DI
\* registrations bind to a type of X's parameter/field evidence.
Thm_C7_DeclaringFileIsTarget ==
    Returned =>
        \A t \in records[p_idx].param_field_types :
            \A gid \in DOMAIN records :
                (gid # p_idx /\ Declares(gid, t)) =>
                    \/ EdgeTo(gid, {"param"})
                    \/ /\ EdgeTo(gid, {"di"})
                       /\ \E u \in records[p_idx].param_field_types :
                             \E m \in Range(records[gid].declared_classes) :
                                 Registered(u, m)

\* C7 witness: two other files declare a type X references and both are
\* targets with reason 'param'.
Wit_C7_TwoDeclaringFiles ==
    /\ Returned
    /\ \E t \in records[p_idx].param_field_types :
          \E g1, g2 \in DOMAIN records :
              /\ g1 # g2 /\ g1 # p_idx /\ g2 # p_idx
              /\ Declares(g1, t) /\ Declares(g2, t)
              /\ EdgeTo(g1, {"param"}) /\ EdgeTo(g2, {"param"})

StrictChild(child, parent) ==
    /\ Len(child) > Len(parent)
    /\ SubSeq(child, 1, Len(parent)) = parent
    /\ child[Len(parent) + 1] = "."

\* C8: every call of match_using_to_file_ids for a using U returns exactly
\* the files declaring U or a strict child of U, and, in permissive mode
\* only, the files declaring a namespace of which U is a strict child.
Thm_C8_UsingMatches ==
    \A k \in DOMAIN using_calls :
        LET U == using_calls[k].using IN
        using_calls[k].ids =
            {gid \in DOMAIN records :
                \E d \in Range(records[gid].declared_namespaces) :
                    \/ d = U
                    \/ StrictChild(d, U)
                    \/ ~globals.GLOBAL_STRICT_USINGS /\ StrictChild(U, d)}

\* C8 witness: in strict mode a call matched a file declaring a strict
\* child of the using and left out a file whose only declared namespace is
\* a strict prefix of another using of the same record.
Wit_C8_StrictLeavesOutPrefix ==
    /\ globals # <<>>
    /\ globals.GLOBAL_STRICT_USINGS
    /\ \E k, j \in DOMAIN using_calls :
          /\ \E gid \in using_calls[k].ids :
                \E d \in Range(records[gid].declared_namespaces) :
                    StrictChild(d, using_calls[k].using)
          /\ \E gid \in DOMAIN records :
                /\ Len(records[gid].declared_namespaces) = 1
                /\ StrictChild(using_calls[j].using, records[gid].declared_namespaces[1])
                /\ gid \notin using_calls[j].ids

\* C9 as stated: when a registration binds IFoo to Foo, every file whose
\* parameter/field evidence contains IFoo has an edge with reason 'di' to
\* each other file declaring Foo.
CE_C9_ImplementationTaggedDi ==
    Returned =>
        \A i \in records[p_idx].param_field_types :
            \A gid \in DOMAIN records :
                \A m \in Range(records[gid].declared_classes) :
                    (gid # p_idx /\ Registered(i, m)) => EdgeTo(gid, {"di"})

\* C9 amended: when a registration binds IFoo to Foo, every file whose
\* parameter/field evidence contains IFoo has an edge to each other file
\* declaring Foo, with reason 'di', or with reason 'param' when that file
\* also declares a type of the source file's parameter/field evidence.
Thm_C9_ImplementationIsTarget ==
    Returned =>
        \A i \in records[p_idx].param_field_types :
            \A gid \in DOMAIN records :
                \A m \in Range(records[gid].declared_classes) :
                    (gid # p_idx /\ Registered(i, m)) =>
                        \/ EdgeTo(gid, {"di"})
                        \/ /\ EdgeTo(gid, {"param"})
                           /\ \E u \in records[p_idx].param_field_types :
                                 Declares(gid, u)

\* C9 witness: the registration names the types with their namespaces, no
\* file declares the interface, and the file declaring the implementation
\* is a target with reason 'di'.
Wit_C9_DiEdgeWithoutInterfaceFile ==
    /\ Returned
    /\ \E r \in DOMAIN di_regs :
          /\ di_regs[r].iface # ShortName(di_regs[r].iface)
          /\ ShortName(di_regs[r].iface) \in records[p_idx].param_field_types
          /\ \A gid \in DOMAIN records : ~Declares(gid, ShortName(di_regs[r].iface))
          /\ \E gid \in DOMAIN records :
                /\ Declares(gid, ShortName(di_regs[r].impl))
                /\ EdgeTo(gid, {"di"})

\* C10: the edge list process_record_imports returns holds each target
\* file at most once.
CE_C10_TargetAtMostOnce ==
    Returned =>
        \A i, j \in DOMAIN matches : matches[i].fid = matches[j].fid => i = j

\* the file name of a record matches a pattern of the exclusion list
Excluded(gid) ==
    \E k \in DOMAIN globals.EXCLUDE_FILENAME_PATTERNS :
        /\ globals.EXCLUDE_FILENAME_PATTERNS[k] # <<>>
        /\ Contains(globals.EXCLUDE_FILENAME_PATTERNS[k], Lower(records[gid].name))

\* C11: with a non-empty exclusion list, no edge process_record_imports
\* returns targets a file whose lower-cased name contains one of the
\* exclusion substrings.
CE_C11_NoExcludedTarget ==
    Returned => \A k \in DOMAIN matches : ~Excluded(matches[k].fid)

CE_C13_FilenameFallback ==
    Returned =>
        \A t \in records[p_idx].param_field_types \cup records[p_idx].new_types :
            t \notin DOMAIN class_idx =>
                \A gid \in DOMAIN records :
                    (gid # p_idx /\ Lower(records[gid].name) = Lower(t) \o DotCs) =>
                        EdgeTo(gid, {"filename"})

----------------------------------------------------------------------------
(* Claims about process_project *)

\* both computations of the file have returned
Finished == pc = "done" /\ c_pc = "return"

\* entries are left to expand for a level below max_levels only
RoundsBounded ==
    /\ (pc = "expand" /\ todo # {}) => lvl \in 1..(max_levels - 1)
    /\ (c_pc = "expand" /\ c_todo # {}) => c_lvl \in 1..(max_levels - 1)

\* no file and no method entry is in two levels
PlacedOnce ==
    /\ pc \in {"expand", "done"} =>
          \A i, j \in 1..max_levels :
              i # j => deps_levels[i] \cap deps_levels[j] = {}
    /\ c_pc = "expand" =>
          \A i, j \in 1..max_levels : i # j => c_levels[i] \cap c_levels[j] = {}

\* C14: on every reference graph, cyclic ones included, and for every
\* N >= 1, compute_dependencies_for_file and compute_method_calls_for_file
\* return, their expansion rounds run for the levels 1..N-1 only, and a
\* node already placed in a level is not placed again.
Thm_C14_ExpansionTerminates ==
    /\ [](RoundsBounded /\ PlacedOnce)
    /\ <>Finished

\* C14 witness: both computations returned on a graph where the root file
\* and a level-1 file reference each other and a method of the root calls
\* itself, with more than one level asked for.
Wit_C14_FinishedOnCycle ==
    /\ Finished
    /\ max_levels > 1
    /\ \E f \in deps_levels[1] : relpath \in DirectTargets(fs, idxs, f)
    /\ \E m \in DOMAIN c_result : <<relpath, m>> \in c_result[m][1]

----------------------------------------------------------------------------
(* Claims about reading *)

\* the stored file cannot be read, or holds bytes that are not UTF-8
Unreadable(f) == ~disk[f].readable
Undecodable(f) == \E i \in DOMAIN disk[f].bytes : disk[f].bytes[i].kind = "bad"

EmptyRecord(f) ==
    /\ idxs.cs_types[f] = {}
    /\ idxs.cs_namespaces[f] = {}
    /\ idxs.cs_usings[f] = <<>>
    /\ idxs.cs_identifiers[f] = {}
    /\ idxs.cs_methods[f] = NoMethods

\* C15: a file that cannot be read or decoded has an empty record, and the
\* dependency levels computed for it are empty.
CE_C15_UnreadableFileIsEmpty ==
    \A f \in DOMAIN disk :
        (Unreadable(f) \/ Undecodable(f)) =>
            /\ EmptyRecord(f)
            /\ (pc = "done" /\ relpath = f) =>
                  \A k \in 1..max_levels : deps_levels[k] = {}

----------------------------------------------------------------------------
(* Claims about the merge order of build_decl_indexes_parallel *)

\* the args_tuple with the declaration indexes merged in record order
ArgsInRecordOrder ==
    LET ix == build_decl_indexes_parallel(records, [i \in DOMAIN records |-> i])
    IN [ArgsTuple EXCEPT !.class_idx = ix.class_idx, !.method_idx = ix.method_idx]

SameEdges(s1, s2) == Range(s1.matches) = Range(s2.matches) /\ s1.seen = s2.seen

\* C16: whatever the order in which the worker results were merged, each
\* heuristic step of process_record_imports adds the same
\* (target, reason, symbol) edges as it adds with the indexes merged in
\* record order, so the returned edge set does not depend on that order.
Thm_C16_MergeOrderIndependent ==
    /\ p_pc = "param" =>
          \A t \in p_left :
              SameEdges(ParamBody(globals, ArgsTuple, State, t),
                        ParamBody(globals, ArgsInRecordOrder, State, t))
    /\ p_pc = "new" =>
          \A t \in p_left :
              SameEdges(NewBody(globals, ArgsTuple, State, t),
                        NewBody(globals, ArgsInRecordOrder, State, t))
    /\ (p_pc = "inv" /\ p_i <= Len(records[p_idx].invocations)) =>
          SameEdges(InvBody(globals, ArgsTuple, State, records[p_idx].invocations[p_i]),
                    InvBody(globals, ArgsInRecordOrder, State,
                            records[p_idx].invocations[p_i]))
    /\ p_pc = "filename" =>
          \A t \in p_left :
              SameEdges(FilenameBody(globals, ArgsTuple, State, t),
                        FilenameBody(globals, ArgsInRecordOrder, State, t))

\* C16 witness: two files declare a type the resolved file instantiates,
\* the class index lists them against the record order, and both are
\* targets.
Wit_C16_ReversedMerge ==
    /\ Returned
    /\ \E t \in records[p_idx].new_types :
          /\ t \in DOMAIN class_idx
          /\ Len(class_idx[t]) = 2
          /\ class_idx[t][1] > class_idx[t][2]
          /\ EdgeTo(class_idx[t][1], {"new"})
          /\ EdgeTo(class_idx[t][2], {"new"})

----------------------------------------------------------------------------
(* Claims about the expansion of intermediate files *)

\* the files of the levels 1..k
UpTo(k) == UNION {deps_levels[i] : i \in 1..k}

\* C17: the direct targets derived for a file expanded at some level are
\* the level-1 targets the file has as a root, and every level-1 target of
\* a file placed at level k < N is in a level <= k + 1 or is the root.
CE_C17_IntermediateAsRoot ==
    pc = "done" =>
        /\ \A f \in visited \cap fs :
              DirectTargets(fs, idxs, f) = Level1Targets(fs, idxs, f)
        /\ \A k \in 1..(max_levels - 1) :
              \A f \in deps_levels[k] :
                  Level1Targets(fs, idxs, f) \subseteq UpTo(k + 1) \cup {relpath}

\* C18: a C# root with a using U has in level 1 every other file that
\* declares namespace U or a strict child of U.
CE_C18_UsingMatchesChildNamespace ==
    (pc = "done" /\ IsCs(relpath)) =>
        \A i \in DOMAIN idxs.cs_usings[relpath] :
            \A g \in DOMAIN idxs.cs_namespaces :
                (/\ g # relpath
                 /\ \E d \in idxs.cs_namespaces[g] :
                       \/ d = idxs.cs_usings[relpath][i]
                       \/ StrictChild(d, idxs.cs_usings[relpath][i]))
                => g \in deps_levels[1]

----------------------------------------------------------------------------
(* Claims about unknown method bodies *)

\* the body the method table holds for an entry, '' when it holds none
BodyOf(item) ==
    IF item[1] \in DOMAIN idxs.cs_methods
       /\ item[2] \in DOMAIN idxs.cs_methods[item[1]]
    THEN idxs.cs_methods[item[1]][item[2]]
    ELSE <<>>

\* the inner loop over the entries of level c_lvl has run to its end
RoundDone == c_pc = "expand" /\ c_todo = {} /\ c_lvl < max_levels

\* C19: when a round of compute_method_calls_for_file ends, the next level
\* holds exactly the callees, not placed in an earlier level, of the
\* entries of the level whose body is known; an entry whose body is
\* unknown or empty adds nothing and takes nothing away.
Thm_C19_UnknownBodyEndsBranch ==
    RoundDone =>
        c_levels[c_lvl + 1] =
            {key \in UNION {CallEntries(idxs, InvokedNames(BodyOf(item))) :
                              item \in {it \in c_levels[c_lvl] : BodyOf(it) # <<>>}} :
                \A x \in 1..c_lvl : key \notin c_levels[x]}

\* C19 witness: a round ended on a level with an entry of empty body and
\* another entry that put a callee into the next level.
Wit_C19_EmptyBodyBesideKnown ==
    /\ RoundDone
    /\ \E it \in c_levels[c_lvl] : BodyOf(it) = <<>>
    /\ c_levels[c_lvl + 1] # {}

----------------------------------------------------------------------------
(* Claims about the reason of an edge *)

\* the position of a reason in the evaluation order of the heuristics
Phase(by) ==
    CASE by \in {"param", "di"} -> 1
      [] by = "new" -> 2
      [] by \in {"qualifier", "method", "argvar"} -> 3
      [] by = "using" -> 4
      [] by = "filename" -> 5

\* all edges to one target carry one reason
OneReason ==
    \A i, j \in DOMAIN matches :
        matches[i].fid = matches[j].fid => matches[i].by = matches[j].by

\* the edges are listed in the evaluation order of their heuristics
PhaseOrdered ==
    \A i, j \in DOMAIN matches :
        i < j => Phase(matches[i].by) <= Phase(matches[j].by)

\* within one call, edges are only appended
AppendOnly == p_pc # "start" => IsPrefix(matches, matches')

----------------------------------------------------------------------------
(* Claims about the local variable types *)

\* the name is declared by exactly one "... name = new ..." of the text
DeclaredOnce(text, name) ==
    Cardinality({i \in DOMAIN text : TypedNewAt(text, i) /\ text[i + 1] = name}) = 1

\* the stripped arguments of an invocation
ArgsOf(inv) ==
    LET raw == SplitOn(inv.args, ",")
    IN {Strip(raw[i]) : i \in DOMAIN raw} \ {<<>>}

\* the map of the record binds the name to the type
Binds(rec, name, type) ==
    name \in DOMAIN rec.var_map /\ rec.var_map[name] = type

\* C21: in every record "var x = new Foo(...)" binds x to Foo and
\* "Bar y = new Baz(...)" binds y to Bar; when process_record_imports
\* returns, an invocation with argument x has given an 'argvar' edge to
\* every other file that declares Foo.
CE_C21_VarBindsConstructedType ==
    \A id \in DOMAIN records :
        LET rec == records[id] IN
        \A i \in DOMAIN rec.text :
            /\ (VarNewAt(rec.text, i) /\ DeclaredOnce(rec.text, rec.text[i + 1]))
                  => /\ Binds(rec, rec.text[i + 1], rec.text[i + 4])
                     /\ (Returned /\ id = p_idx
                         /\ \E k \in DOMAIN rec.invocations :
                               rec.text[i + 1] \in ArgsOf(rec.invocations[k]))
                           => \A gid \in DOMAIN records :
                                 (gid # id /\ Declares(gid, rec.text[i + 4]))
                                    => EdgeTo(gid, {"argvar"})
            /\ (TypedNewAt(rec.text, i) /\ rec.text[i] # KwVar
                /\ DeclaredOnce(rec.text, rec.text[i + 1]))
                  => Binds(rec, rec.text[i + 1], rec.text[i])


----------------------------------------------------------------------------
(* Claims about what resolution writes *)

\* C22: no step of process_record_imports, compute_dependencies_for_file or
\* compute_method_calls_for_file changes the source records, the class index,
\* the method index, the namespace index, the DI map or the indexes of
\* build_indexes; a lookup of an absent name adds no key.
Thm_C22_ResolutionReadOnly ==
    [][/\ records' = records
       /\ class_idx' = class_idx
       /\ method_idx' = method_idx
       /\ ns_to_ids' = ns_to_ids
       /\ di_map' = di_map
       /\ idxs' = idxs]_vars

\* a second record has been resolved after a first one, and it looked up a
\* type the class index lacks, a type the DI map lacks and a method the
\* method index lacks
Wit_C22_AbsentNamesLookedUp ==
    /\ Returned
    /\ p_idx > 1
    /\ \E t \in records[p_idx].param_field_types :
          t \notin DOMAIN class_idx /\ t \notin DOMAIN di_map
    /\ \E k \in DOMAIN records[p_idx].invocations :
          ShortName(records[p_idx].invocations[k].expr) \notin DOMAIN method_idx


----------------------------------------------------------------------------
(* Claims about the call levels returned *)

\* compute_method_calls_for_file has returned its result
CallsReturned == c_pc = "return"

\* the entries the body of entry e invokes, none when the body is unknown
InvokedBy(e) ==
    CallEntries(idxs, InvokedNames(Get(Get(idxs.cs_methods, e[1], NoMethods), e[2], <<>>)))

\* the entries reached at level k from method m of the file: invoked by the
\* body of m (k = 1) or by the body of an entry of level k - 1
ReachedAt(m, k) ==
    IF k = 1 THEN InvokedBy(<<relpath, m>>)
    ELSE UNION {InvokedBy(e) : e \in c_result[m][k - 1]}

\* C23: in the result returned, the call levels 1..N of every method are
\* pairwise disjoint, and an entry of level k is reached at no level
\* before k.
Thm_C23_CallLevelsDisjoint ==
    CallsReturned =>
        \A m \in DOMAIN c_result : \A k \in 1..max_levels :
            \A e \in c_result[m][k] : \A j \in 1..(k - 1) :
                e \notin c_result[m][j] /\ e \notin ReachedAt(m, j)

\* an entry of some level is invoked again by an entry of a later level that
\* was expanded
Wit_C23_ReachedAgainLater ==
    /\ CallsReturned
    /\ \E m \in DOMAIN c_result : \E k \in 1..max_levels :
          \E j \in (k + 2)..max_levels :
              c_result[m][k] \cap ReachedAt(m, j) # {}


----------------------------------------------------------------------------
(* Claims about where a call entry comes from *)

\* the bodies searched for the entries of level k of method m: the body of
\* m itself, or the bodies of the entries of level k - 1
BodiesBefore(m, k) ==
    IF k = 1 THEN {idxs.cs_methods[relpath][m]}
    ELSE {BodyOf(p) : p \in c_result[m][k - 1]}

\* the body holds an invocation whose last dotted segment is the name
Invokes(body, name) ==
    \E i \in DOMAIN body : body[i].kind = "call" /\ Last(body[i].full) = name

\* C24: every entry <<f, n>> of a call level returned is a pair of the
\* method index (f is listed under n, and f declares a method n), and n is
\* the last dotted segment of an invocation in the body of the root method
\* (level 1) or of an entry of the level before.
Thm_C24_EntryFromMethodIndex ==
    CallsReturned =>
        \A m \in DOMAIN c_result : \A k \in 1..max_levels :
            \A e \in c_result[m][k] :
                /\ e[1] \in Get(idxs.method_decl_map, e[2], {})
                /\ e[2] \in DOMAIN Get(idxs.cs_methods, e[1], NoMethods)
                /\ \E body \in BodiesBefore(m, k) : Invokes(body, e[2])

\* a level after the first holds an entry of the other file, named by a
\* dotted invocation, while the invoking file declares no such method
Wit_C24_DottedInvocationResolved ==
    /\ CallsReturned
    /\ \E m \in DOMAIN c_result : \E k \in 2..max_levels :
          \E e \in c_result[m][k] : \E p \in c_result[m][k - 1] :
              /\ e[1] # p[1]
              /\ e[2] \notin DOMAIN Get(idxs.cs_methods, p[1], NoMethods)
              /\ \E i \in DOMAIN BodyOf(p) :
                    /\ BodyOf(p)[i].kind = "call"
                    /\ Len(BodyOf(p)[i].full) > 1
                    /\ Last(BodyOf(p)[i].full) = e[2]

====
